---- MODULE Spec2Model ----
(***************************************************************************)
(* The verification and settlement state machine of the EVM "exact"        *)
(* payment scheme (schemes/exact/evm/facilitator.ts): verify() and         *)
(* settle(), run step by step between their await points against a chain   *)
(* whose clock, token balance and bytecode change underneath them.         *)
(***************************************************************************)
EXTENDS Integers, Sequences, FiniteSets, TLC

(***************************************************************************)
(* Bounds of the model                                                     *)
(***************************************************************************)
MaxTicks == 2            \* how many times the wall clock advances
TickMs == 500            \* milliseconds per clock advance
MaxAmountRequired == 2   \* the amount the requirements demand

(***************************************************************************)
(* Program constants                                                       *)
(***************************************************************************)
MsPerSecond == 1000      \* Date.now() / 1000
DeadlinePad == 6         \* "+ 6" seconds on the validBefore check
EoaHexLength == 130      \* signatureLength > 130
PrefixLength == 2        \* signature.length - 2
BaseRecoveryId == 27     \* 27 + parsedSig.yParity

SCHEME == "exact"
Undefined == "undefined"
Unread == -1

(***************************************************************************)
(* Values                                                                  *)
(***************************************************************************)
Sessions == {"s1", "s2"}

\* An address string: the account it names and the letter case it is written in.
Accounts == {"payer", "merchant", "other"}
Forms == {"lower", "checksum"}
Address(a, f) == [account |-> a, form |-> f]

\* A signature string: whether it starts with "0x", the number of hex digits
\* after the prefix, and what wraps it: nothing, an ERC-6492 wrapper with the
\* factory address and the deployment call data, or a wrapper that parses to
\* one of the two alone.
Sig(p, n, w) == [prefixed |-> p, hexLen |-> n, wrapper |-> w]
Signatures ==
    {Sig(p, n, "none") : p \in BOOLEAN, n \in {EoaHexLength, EoaHexLength + 2}}
    \cup {Sig(TRUE, EoaHexLength - 2, "none")}
    \cup {Sig(TRUE, 200, w) : w \in {"none", "erc6492", "factoryOnly", "callDataOnly"}}

Schemes == {SCHEME, "upto"}
Networks == {"base-sepolia", "unconfigured", "unknown"}
Values == {MaxAmountRequired - 1, MaxAmountRequired, MaxAmountRequired + 1}
Balances == {MaxAmountRequired - 1, MaxAmountRequired}
ValidAfters == {0, 1}
ValidBefores == {DeadlinePad, DeadlinePad + 1}
Bytecodes == {Undefined, "0x", "0x6080"}

Payloads ==
    [scheme : Schemes, network : Networks, signature : Signatures,
     from : {Address("payer", "checksum")},
     to : {Address("merchant", "checksum"), Address("merchant", "lower"),
           Address("other", "checksum")},
     value : Values, validAfter : ValidAfters, validBefore : ValidBefores]

Requirements ==
    [scheme : Schemes, payTo : {Address("merchant", "checksum")},
     maxAmountRequired : {MaxAmountRequired}, extraName : BOOLEAN,
     extraVersion : BOOLEAN]

NoResult == [kind |-> "none"]
Thrown == [kind |-> "throw"]

VerifyResponse(isValid, invalidReason, payer) ==
    [kind |-> "VerifyResponse", isValid |-> isValid,
     invalidReason |-> invalidReason, payer |-> payer]

SettleResponse(success, errorReason, transaction, network, payer) ==
    [kind |-> "SettleResponse", success |-> success, errorReason |-> errorReason,
     transaction |-> transaction, network |-> network, payer |-> payer]

NoCalls ==
    [getVersion |-> 0, verifyTypedData |-> 0, getERC20Balance |-> 0,
     getCode |-> 0, writeContract |-> 0, waitForTransactionReceipt |-> 0]

\* No signature parsed (yet).
NoParse == [r |-> Undefined, s |-> Undefined, v |-> Unread, yParity |-> Unread]

NoLocals ==
    [version |-> "unread", engine |-> "unread", recovered |-> Undefined,
     now1 |-> Unread, now2 |-> Unread,
     balance |-> Unread, bytecode |-> "unread", valid |-> NoResult,
     settleBytecode |-> "unread", parsedSig |-> NoParse, tx |-> "",
     status |-> "unread"]

(***************************************************************************)
(* Pure helpers                                                            *)
(***************************************************************************)
\* viem getAddress: the checksum form of an address, whatever its letter case.
getAddress(a) == [a EXCEPT !.form = "checksum"]

\* Math.floor(Date.now() / 1000)
UnixSeconds(ms) == ms \div MsPerSecond

StringLength(sig) == sig.hexLen + (IF sig.prefixed THEN PrefixLength ELSE 0)

\* Mutation: the "0x" prefix is counted.
signatureLengthUnstripped(sig) == StringLength(sig)

\* signature.startsWith("0x") ? signature.length - 2 : signature.length
signatureLength(sig) ==
    IF sig.prefixed THEN StringLength(sig) - PrefixLength ELSE StringLength(sig)

\* Mutation: every length other than that of an EOA signature is a smart
\* wallet's.
isSmartWalletUnlessExact(sig) == signatureLength(sig) # EoaHexLength

\* Mutation: every signature is taken as a smart wallet's.
isSmartWalletAlways(sig) == TRUE

isSmartWallet(sig) == signatureLength(sig) > EoaHexLength

\* Mutation: the wrapper is recognised and left on the signature.
parseErc6492SignatureKeepsWrapper(sig) ==
    [address |-> IF sig.wrapper \in {"erc6492", "factoryOnly"}
                 THEN "factory" ELSE Undefined,
     data |-> IF sig.wrapper \in {"erc6492", "callDataOnly"}
              THEN "calldata" ELSE Undefined,
     signature |-> sig]

\* viem parseErc6492Signature: the factory address, the deployment call data and
\* the inner signature of a wrapped signature, address and data being optional
\* in the result; the signature alone otherwise.
parseErc6492Signature(sig) ==
    IF sig.wrapper = "none"
    THEN [address |-> Undefined, data |-> Undefined, signature |-> sig]
    ELSE [address |-> IF sig.wrapper \in {"erc6492", "factoryOnly"}
                      THEN "factory" ELSE Undefined,
          data |-> IF sig.wrapper \in {"erc6492", "callDataOnly"}
                   THEN "calldata" ELSE Undefined,
          signature |-> Sig(TRUE, EoaHexLength + 2, "none")]

\* Mutation: the inner signature is tested instead of the factory and call data.
hasDeploymentInfoBySignature(sig) == parseErc6492Signature(sig).signature.hexLen > 0

\* Mutation: one of the factory address and the call data is enough.
hasDeploymentInfoEither(sig) ==
    \/ parseErc6492Signature(sig).address # Undefined
    \/ parseErc6492Signature(sig).data # Undefined

hasDeploymentInfo(sig) ==
    /\ parseErc6492Signature(sig).address # Undefined
    /\ parseErc6492Signature(sig).data # Undefined

\* Mutation: an absent bytecode is not taken as empty.
isEmptyBytecodeHexOnly(bytecode) == bytecode = "0x"

isEmptyBytecode(bytecode) == bytecode = Undefined \/ bytecode = "0x"

(***************************************************************************)
(* State                                                                   *)
(***************************************************************************)
VARIABLES
    nowMs,      \* Date.now()
    balance,    \* the payer's token balance on chain
    code,       \* what getCode answers for the payer's address
    payload,    \* per session: the PaymentPayload
    requirements, \* per session: the PaymentRequirements
    op,         \* per session: the call in flight or last returned
    pc,         \* per session: where the call stands
    local,      \* per session: the values the call has read so far
    calls,      \* per session: external calls issued by the current call
    submitted,  \* per session: the writeContract requests of the current call
    prior,      \* per session: what an earlier standalone verify returned
    result,     \* per session: what the call returned
    paywall,    \* the paywall client: the 402 response in hand and what it made of it
    mined       \* the sessions whose submitted transfer the chain has executed

vars == <<nowMs, balance, code, payload, requirements, op, pc, local, calls,
          submitted, prior, result, paywall, mined>>

chain == <<nowMs, balance, code>>
inputs == <<payload, requirements>>

Active == {c \in Sessions : pc[c] # "off"}
InFlight(c) == pc[c] \notin {"off", "idle", "done"}

(***************************************************************************)
(* The checks of verify(), each on the values it reads                     *)
(***************************************************************************)
\* The networks getNetworkId knows, and those among them the config table has
\* an entry (with the token's name) for.
KnownNetworks == {"base-sepolia", "unconfigured"}
ConfiguredNetworks == {"base-sepolia"}

\* Mutation: the scheme of the payload is not looked at.
schemeOfRequirementsOnly(p, r) == ~(r.scheme # SCHEME)

\* Mutation: the scheme of the requirements is not looked at.
schemeOfPayloadOnly(p, r) == ~(p.scheme # SCHEME)

schemeSupported(p, r) == ~(p.scheme # SCHEME \/ r.scheme # SCHEME)

\* getNetworkId(payload.network) throws for a network it does not know.
networkResolves(p) == p.network \in KnownNetworks

\* Mutation: a chain without a config entry yields an undefined name, no throw.
nameResolvesUnchecked(p, r) == TRUE

\* paymentRequirements.extra?.name ?? config[chainId.toString()].usdcName
\* throws when the name is not given and the config has no entry for the chain.
nameResolves(p, r) == r.extraName \/ p.network \in ConfiguredNetworks

\* paymentRequirements.extra?.version ?? (await getVersion(client))
needsVersionRead(r) == ~r.extraVersion

\* Mutation: only a signer other than authorization.from is refused.
recoveredAddressUnlessMismatch(outcome) == outcome # "mismatch"

\* What client.verifyTypedData resolves to: true when the signer recovered from
\* the typed data is authorization.from, false when it is another address or
\* when no signer can be recovered.
recoveredAddress(outcome) == outcome = "match"

\* Mutation: the two addresses are compared as the strings they came in.
recipientMatchesAsWritten(p, r) == ~(p.to # r.payTo)

recipientMatches(p, r) == ~(getAddress(p.to) # getAddress(r.payTo))

\* Mutation: a deadline exactly 6 seconds away is refused as well.
notExpiredStrictly(p, ms) == ~(p.validBefore <= UnixSeconds(ms) + DeadlinePad)

notExpired(p, ms) == ~(p.validBefore < UnixSeconds(ms) + DeadlinePad)

\* Mutation: an authorization that becomes valid this very second is refused.
alreadyValidStrictly(p, ms) == ~(p.validAfter >= UnixSeconds(ms))

alreadyValid(p, ms) == ~(p.validAfter > UnixSeconds(ms))

\* Mutation: the balance is read and not compared.
fundsUnchecked(r, bal) == TRUE

\* Mutation: a balance one unit short is let through.
sufficientFundsOffByOne(r, bal) == ~(bal < r.maxAmountRequired - 1)

\* Mutation: the balance has to cover a second authorization of the payer too.
sufficientFundsForTwo(r, bal) == ~(bal < 2 * r.maxAmountRequired)

sufficientFunds(r, bal) == ~(bal < r.maxAmountRequired)

\* Mutation: the value check is off by one.
sufficientValueOffByOne(p, r) == ~(p.value < r.maxAmountRequired - 1)

\* Mutation: only the exact amount is let through.
sufficientValueExactly(p, r) == p.value = r.maxAmountRequired

sufficientValue(p, r) == ~(p.value < r.maxAmountRequired)

\* Mutation: a rejection that names the recipient as payer.
InvalidPayerRecipient(c, reason) == VerifyResponse(FALSE, reason, payload[c].to)

\* Mutation: every rejection is reported with the valid-after reason.
InvalidAsValidAfter(c, reason) ==
    VerifyResponse(FALSE, "invalid_exact_evm_payload_authorization_valid_after",
                   payload[c].from)

Invalid(c, reason) == VerifyResponse(FALSE, reason, payload[c].from)

\* Mutation: an acceptance that still carries a reason.
ValidWithReason(c) == VerifyResponse(TRUE, "unsupported_scheme", payload[c].from)

Valid(c) == VerifyResponse(TRUE, Undefined, payload[c].from)

(***************************************************************************)
(* The paywall client's handling of a 402 response, as the paywall tests    *)
(* state it                                                                 *)
(***************************************************************************)
\* The x402Version of a response body: absent, a number, or a string.
X402Versions ==
    {[type |-> "undefined", value |-> Undefined],
     [type |-> "number", value |-> "1"], [type |-> "number", value |-> "2"],
     [type |-> "string", value |-> "1"]}

\* typeof errorData.x402Version
typeOf(version) == version.type

ErrorReasons ==
    {"unsupported_scheme", "invalid_network", "invalid_exact_evm_payload_signature",
     "invalid_exact_evm_payload_recipient_mismatch",
     "invalid_exact_evm_payload_authorization_valid_before",
     "invalid_exact_evm_payload_authorization_valid_after",
     "insufficient_funds", "invalid_exact_evm_payload_authorization_value",
     "invalid_exact_evm_payload_undeployed_smart_wallet",
     "invalid_transaction_state", "invalid_scheme"}

\* The bodies of a 402 response: error may be absent, accepts may be empty.
ErrorDatas ==
    [error : ErrorReasons \cup {Undefined}, x402Version : X402Versions,
     accepts : {"none", "some"}]

DeployFirstMessage ==
    "Smart wallet must be deployed before making payments. Please deploy your wallet first."

\* Mutation: a numeric x402Version is looked at first.
handle402VersionFirst(errorData) ==
    IF typeOf(errorData.x402Version) = "number"
    THEN [shouldRetry |-> TRUE, errorMessage |-> ""]
    ELSE IF errorData.error = "invalid_exact_evm_payload_undeployed_smart_wallet"
    THEN [shouldRetry |-> FALSE, errorMessage |-> DeployFirstMessage]
    ELSE [shouldRetry |-> TRUE, errorMessage |-> ""]

\* let shouldRetry = true; let errorMessage = ""; then the undeployed-wallet
\* error is tested before the x402Version.
handle402(errorData) ==
    IF errorData.error = "invalid_exact_evm_payload_undeployed_smart_wallet"
    THEN [shouldRetry |-> FALSE, errorMessage |-> DeployFirstMessage]
    ELSE IF typeOf(errorData.x402Version) = "number"
    THEN [shouldRetry |-> TRUE, errorMessage |-> ""]
    ELSE [shouldRetry |-> TRUE, errorMessage |-> ""]

NoErrorData ==
    [error |-> Undefined, x402Version |-> [type |-> "undefined", value |-> Undefined],
     accepts |-> "none"]

Response(errorData, handled, outcome) ==
    [errorData |-> errorData, handled |-> handled,
     shouldRetry |-> outcome.shouldRetry, errorMessage |-> outcome.errorMessage]

\* No response in hand.
NoResponse == Response(NoErrorData, FALSE, [shouldRetry |-> TRUE, errorMessage |-> ""])

(***************************************************************************)
(* Initial state: one caller with any payload and requirements, about to   *)
(* call verify or settle; the second session is switched off.              *)
(***************************************************************************)
DefaultPayload ==
    [scheme |-> SCHEME, network |-> "base-sepolia",
     signature |-> Sig(TRUE, EoaHexLength, "none"),
     from |-> Address("payer", "checksum"), to |-> Address("merchant", "checksum"),
     value |-> MaxAmountRequired, validAfter |-> 0, validBefore |-> DeadlinePad + 1]

DefaultRequirements ==
    [scheme |-> SCHEME, payTo |-> Address("merchant", "checksum"),
     maxAmountRequired |-> MaxAmountRequired, extraName |-> TRUE,
     extraVersion |-> TRUE]

\* The payer starts with the required balance and no code at its address;
\* Transfer and Deploy bring about every other state of the chain before the
\* first read of it.
InitCommon ==
    /\ nowMs = 0
    /\ balance = MaxAmountRequired
    /\ code \in {Undefined, "0x"}
    /\ op = [c \in Sessions |-> "none"]
    /\ local = [c \in Sessions |-> NoLocals]
    /\ calls = [c \in Sessions |-> NoCalls]
    /\ submitted = [c \in Sessions |-> <<>>]
    /\ prior = [c \in Sessions |-> NoResult]
    /\ result = [c \in Sessions |-> NoResult]
    /\ mined = {}

Init ==
    /\ InitCommon
    /\ \E p \in Payloads, r \in Requirements :
          /\ payload = [c \in Sessions |-> IF c = "s1" THEN p ELSE DefaultPayload]
          /\ requirements =
                [c \in Sessions |-> IF c = "s1" THEN r ELSE DefaultRequirements]
    /\ pc = [c \in Sessions |-> IF c = "s1" THEN "idle" ELSE "off"]
    /\ paywall = NoResponse

(***************************************************************************)
(* How a call hands back its outcome                                       *)
(***************************************************************************)
Goto(c, label) == pc' = [pc EXCEPT ![c] = label]

Called(c, fn) == calls' = [calls EXCEPT ![c][fn] = @ + 1]

\* verify returns res: to the caller, or to the settle call that awaits it.
VerifyReturns(c, res, loc) ==
    /\ local' = [local EXCEPT ![c] = [loc EXCEPT !.valid = res]]
    /\ IF op[c] = "verify"
       THEN /\ Goto(c, "done")
            /\ result' = [result EXCEPT ![c] = res]
       ELSE /\ Goto(c, "verified")
            /\ UNCHANGED result

\* settle returns res to the caller.
SettleReturns(c, res) ==
    /\ Goto(c, "done")
    /\ result' = [result EXCEPT ![c] = res]

\* An external call rejects and nothing catches it: the call ends by throwing.
Throws(c) ==
    /\ Goto(c, "done")
    /\ result' = [result EXCEPT ![c] = Thrown]

(***************************************************************************)
(* The caller                                                              *)
(***************************************************************************)
\* Mutation: settle goes straight to the submission.
firstStepSkipsVerify(o) == IF o = "settle" THEN "writeContract" ELSE "verify"

\* Where a call starts: verify at its first check, and settle by calling verify.
firstStep(o) == "verify"

Begin(c, o) ==
    /\ op' = [op EXCEPT ![c] = o]
    /\ Goto(c, firstStep(o))
    /\ local' = [local EXCEPT ![c] = NoLocals]
    /\ calls' = [calls EXCEPT ![c] = NoCalls]
    /\ submitted' = [submitted EXCEPT ![c] = <<>>]
    /\ result' = [result EXCEPT ![c] = NoResult]
    /\ UNCHANGED <<chain, inputs, paywall, mined>>

\* A standalone verify(client, payload, paymentRequirements), at admission.
CallVerify(c) ==
    /\ pc[c] = "idle"
    /\ Begin(c, "verify")
    /\ UNCHANGED prior

\* settle(wallet, paymentPayload, paymentRequirements): on its own, or for a
\* payload a standalone verify has accepted. Its first step is to call verify.
CallSettle(c) ==
    /\ \/ pc[c] = "idle"
       \/ /\ pc[c] = "done"
          /\ op[c] = "verify"
          /\ result[c].kind = "VerifyResponse"
          /\ result[c].isValid
    /\ prior' = [prior EXCEPT ![c] = result[c]]
    /\ Begin(c, "settle")

(***************************************************************************)
(* verify, from one await or clock read to the next                        *)
(***************************************************************************)
\* Scheme check and network resolution.
VerifyResolve(c) ==
    /\ pc[c] = "verify"
    /\ LET p == payload[c]
           r == requirements[c]
       IN IF ~schemeSupported(p, r)
          THEN /\ VerifyReturns(c, Invalid(c, "unsupported_scheme"), local[c])
               /\ UNCHANGED calls
          ELSE IF ~networkResolves(p) \/ ~nameResolves(p, r)
          THEN /\ VerifyReturns(c, Invalid(c, "invalid_network"), local[c])
               /\ UNCHANGED calls
          ELSE IF needsVersionRead(r)
          THEN /\ Called(c, "getVersion")
               /\ \E answered \in BOOLEAN :
                     IF answered
                     THEN /\ Goto(c, "verifyTypedData")
                          /\ local' = [local EXCEPT ![c].version = "2"]
                          /\ UNCHANGED result
                     ELSE VerifyReturns(c, Invalid(c, "invalid_network"),
                                        [local[c] EXCEPT !.version = "throw"])
          ELSE /\ Goto(c, "verifyTypedData")
               /\ local' = [local EXCEPT ![c].version = "extra"]
               /\ UNCHANGED <<result, calls>>
    /\ UNCHANGED <<chain, inputs, paywall, mined, op, submitted, prior>>

\* client.verifyTypedData answers, from a signature engine that recovered
\* authorization.from, recovered another signer or recovered none, or rejects
\* when the client cannot be reached; then the recipient check.
VerifySignature(c) ==
    /\ pc[c] = "verifyTypedData"
    /\ Called(c, "verifyTypedData")
    /\ \E outcome \in {"match", "mismatch", "failure", "throw"} :
          LET p == payload[c]
              r == requirements[c]
              loc == [local[c] EXCEPT
                         !.engine = outcome,
                         !.recovered = IF recoveredAddress(outcome)
                                       THEN "true" ELSE "false"]
          IN IF outcome = "throw"
             THEN /\ Throws(c)
                  /\ UNCHANGED local
             ELSE IF ~recoveredAddress(outcome)
             THEN VerifyReturns(c, Invalid(c, "invalid_exact_evm_payload_signature"), loc)
             ELSE IF ~recipientMatches(p, r)
             THEN VerifyReturns(c,
                      Invalid(c, "invalid_exact_evm_payload_recipient_mismatch"), loc)
             ELSE /\ Goto(c, "validBefore")
                  /\ local' = [local EXCEPT ![c] = loc]
                  /\ UNCHANGED result
    /\ UNCHANGED <<chain, inputs, paywall, mined, op, submitted, prior>>

\* The first Date.now(): the deadline must be 6 seconds away or more.
VerifyValidBefore(c) ==
    /\ pc[c] = "validBefore"
    /\ LET loc == [local[c] EXCEPT !.now1 = UnixSeconds(nowMs)]
       IN IF ~notExpired(payload[c], nowMs)
          THEN VerifyReturns(c,
                   Invalid(c, "invalid_exact_evm_payload_authorization_valid_before"), loc)
          ELSE /\ Goto(c, "validAfter")
               /\ local' = [local EXCEPT ![c] = loc]
               /\ UNCHANGED result
    /\ UNCHANGED <<chain, inputs, paywall, mined, op, calls, submitted, prior>>

\* The second Date.now(): the authorization must already be valid.
VerifyValidAfter(c) ==
    /\ pc[c] = "validAfter"
    /\ LET loc == [local[c] EXCEPT !.now2 = UnixSeconds(nowMs)]
       IN IF ~alreadyValid(payload[c], nowMs)
          THEN VerifyReturns(c,
                   Invalid(c, "invalid_exact_evm_payload_authorization_valid_after"), loc)
          ELSE /\ Goto(c, "getERC20Balance")
               /\ local' = [local EXCEPT ![c] = loc]
               /\ UNCHANGED result
    /\ UNCHANGED <<chain, inputs, paywall, mined, op, calls, submitted, prior>>

\* getERC20Balance answers; then the funds check, the value check and the
\* classification of the signature.
VerifyBalance(c) ==
    /\ pc[c] = "getERC20Balance"
    /\ Called(c, "getERC20Balance")
    /\ \E answered \in BOOLEAN :
          LET p == payload[c]
              r == requirements[c]
              loc == [local[c] EXCEPT !.balance = balance]
          IN IF ~answered
             THEN /\ Throws(c)
                  /\ UNCHANGED local
             ELSE IF ~sufficientFunds(r, balance)
             THEN VerifyReturns(c, Invalid(c, "insufficient_funds"), loc)
             ELSE IF ~sufficientValue(p, r)
             THEN VerifyReturns(c,
                      Invalid(c, "invalid_exact_evm_payload_authorization_value"), loc)
             ELSE IF isSmartWallet(p.signature)
             THEN /\ Goto(c, "getCode")
                  /\ local' = [local EXCEPT ![c] = loc]
                  /\ UNCHANGED result
             ELSE VerifyReturns(c, Valid(c), loc)
    /\ UNCHANGED <<chain, inputs, paywall, mined, op, submitted, prior>>

\* client.getCode answers for a smart wallet; an undeployed wallet passes only
\* with ERC-6492 deployment information in its signature.
VerifyGetCode(c) ==
    /\ pc[c] = "getCode"
    /\ Called(c, "getCode")
    /\ \E answered \in BOOLEAN :
          LET p == payload[c]
              loc == [local[c] EXCEPT !.bytecode = code]
          IN IF ~answered
             THEN /\ Throws(c)
                  /\ UNCHANGED local
             ELSE IF isEmptyBytecode(code) /\ ~hasDeploymentInfo(p.signature)
             THEN VerifyReturns(c,
                      Invalid(c, "invalid_exact_evm_payload_undeployed_smart_wallet"), loc)
             ELSE VerifyReturns(c, Valid(c), loc)
    /\ UNCHANGED <<chain, inputs, paywall, mined, op, submitted, prior>>

(***************************************************************************)
(* settle, after its re-verification                                       *)
(***************************************************************************)
\* valid.invalidReason ?? "invalid_scheme"
\* Mutation: the generic code is reported whatever verify said.
errorReasonGeneric(valid) == "invalid_scheme"

errorReasonOf(valid) ==
    IF valid.invalidReason # Undefined THEN valid.invalidReason ELSE "invalid_scheme"

\* Mutation: a failure never carries a transaction hash.
FailureWithoutHash(c, reason, tx) ==
    SettleResponse(FALSE, reason, "", payload[c].network, payload[c].from)

Failure(c, reason, tx) ==
    SettleResponse(FALSE, reason, tx, payload[c].network, payload[c].from)

Success(c, tx) ==
    SettleResponse(TRUE, Undefined, tx, payload[c].network, payload[c].from)

\* Mutation: settle ignores what verify returned.
stillValidIgnored(valid) == TRUE

\* Whether settle goes on after the verify it awaited has returned.
stillValid(valid) == valid.isValid

\* The verify inside settle has returned: give up, or classify the signature.
SettleVerified(c) ==
    /\ pc[c] = "verified"
    /\ LET valid == local[c].valid
       IN IF ~stillValid(valid)
          THEN SettleReturns(c, Failure(c, errorReasonOf(valid), ""))
          ELSE /\ IF isSmartWallet(payload[c].signature)
                  THEN Goto(c, "settleGetCode")
                  ELSE Goto(c, "writeContract")
               /\ UNCHANGED result
    /\ UNCHANGED <<chain, inputs, paywall, mined, op, local, calls, submitted, prior>>

\* wallet.getCode answers for a smart wallet: it must be deployed by now.
SettleGetCode(c) ==
    /\ pc[c] = "settleGetCode"
    /\ Called(c, "getCode")
    /\ \E answered \in BOOLEAN :
          IF ~answered
          THEN /\ Throws(c)
               /\ UNCHANGED local
          ELSE /\ local' = [local EXCEPT ![c].settleBytecode = code]
               /\ IF isEmptyBytecode(code)
                  THEN SettleReturns(c,
                           Failure(c, "invalid_exact_evm_payload_undeployed_smart_wallet", ""))
                  ELSE /\ Goto(c, "writeContract")
                       /\ UNCHANGED result
    /\ UNCHANGED <<chain, inputs, paywall, mined, op, submitted, prior>>

\* viem parseSignature of a 65-byte signature: v when the last byte is 27 or 28,
\* yParity alone when it is 0 or 1.
ParsedSignatures ==
    [r : {"r"}, s : {"s"}, v : {Unread}, yParity : {0, 1}]
    \cup {[r |-> "r", s |-> "s", v |-> BaseRecoveryId + y, yParity |-> y] : y \in {0, 1}}

\* parsedSig.v !== undefined ? Number(parsedSig.v) : 27 + parsedSig.yParity
\* Mutation: v is passed on as parsed, present or not.
recoveryIdAsParsed(parsedSig) == parsedSig.v

recoveryId(parsedSig) ==
    IF parsedSig.v # Unread THEN parsedSig.v ELSE BaseRecoveryId + parsedSig.yParity

\* Mutation: a wallet that comes with deployment information is deployed
\* through its factory.
writeRequestDeploying(p, parsedSig) ==
    [functionName |-> IF hasDeploymentInfo(p.signature)
                      THEN "deploy" ELSE "transferWithAuthorization",
     overload |-> "bytes", from |-> p.from, to |-> p.to, value |-> p.value,
     signature |-> parseErc6492Signature(p.signature).signature,
     v |-> Unread, r |-> Undefined, s |-> Undefined]

\* The arguments of the transferWithAuthorization call: the bytes-signature
\* overload for a smart wallet, the (v, r, s) overload for an EOA.
writeRequest(p, parsedSig) ==
    IF isSmartWallet(p.signature)
    THEN [functionName |-> "transferWithAuthorization", overload |-> "bytes",
          from |-> p.from, to |-> p.to, value |-> p.value,
          signature |-> parseErc6492Signature(p.signature).signature,
          v |-> Unread, r |-> Undefined, s |-> Undefined]
    ELSE [functionName |-> "transferWithAuthorization", overload |-> "vrs",
          from |-> p.from, to |-> p.to, value |-> p.value,
          signature |-> Undefined,
          v |-> recoveryId(parsedSig), r |-> parsedSig.r, s |-> parsedSig.s]

\* parseSignature(payload.signature as Hex) is handed the signature as it came:
\* viem takes r and s from a fixed slice of the string and the recovery byte
\* from what follows, so that it parses a 0x-prefixed signature of 65 bytes for
\* sure, and may throw on any other string.
parsesForSure(sig) == sig.prefixed /\ sig.hexLen = EoaHexLength

TxHash == "0xtxhash"

\* Mutation: a rejected submission is submitted again.
afterSubmissionRetrying(answered) ==
    IF answered THEN "waitForTransactionReceipt" ELSE "writeContract"

\* Mutation: after a rejected submission settle waits for a hash that never
\* comes.
afterSubmissionWaiting(answered) ==
    IF answered THEN "waitForTransactionReceipt" ELSE "awaitHash"

\* Where settle stands after await wallet.writeContract: at the receipt wait
\* with the hash, or out of the function with the rejection, which nothing
\* catches.
afterSubmission(answered) ==
    IF answered THEN "waitForTransactionReceipt" ELSE "done"

\* For an EOA parseSignature runs first and may throw; then wallet.writeContract
\* is called and answers with a transaction hash, or rejects.
SettleWrite(c) ==
    /\ pc[c] = "writeContract"
    /\ \/ /\ ~isSmartWallet(payload[c].signature)
          /\ ~parsesForSure(payload[c].signature)
          /\ Throws(c)
          /\ UNCHANGED <<local, calls, submitted>>
       \/ /\ Called(c, "writeContract")
          /\ \E parsedSig \in ParsedSignatures, answered \in BOOLEAN :
                /\ isSmartWallet(payload[c].signature) => parsedSig.v = BaseRecoveryId
                /\ submitted' = [submitted EXCEPT
                                    ![c] = Append(@, writeRequest(payload[c], parsedSig))]
                /\ LET parsed == IF isSmartWallet(payload[c].signature)
                                 THEN NoParse ELSE parsedSig
                   IN IF answered
                      THEN /\ local' = [local EXCEPT ![c].parsedSig = parsed,
                                                     ![c].tx = TxHash]
                           /\ Goto(c, afterSubmission(answered))
                           /\ UNCHANGED result
                      ELSE /\ local' = [local EXCEPT ![c].parsedSig = parsed]
                           /\ IF afterSubmission(answered) = "done"
                              THEN Throws(c)
                              ELSE /\ Goto(c, afterSubmission(answered))
                                   /\ UNCHANGED result
    /\ UNCHANGED <<chain, inputs, paywall, mined, op, prior>>

\* Mutation: the status of the receipt is not looked at.
receiptSucceededAlways(status) == TRUE

\* receipt.status !== "success" is the failure test.
receiptSucceeded(status) == ~(status # "success")

\* wallet.waitForTransactionReceipt answers with the receipt, or rejects.
SettleReceipt(c) ==
    /\ pc[c] = "waitForTransactionReceipt"
    /\ Called(c, "waitForTransactionReceipt")
    /\ \E status \in {"success", "reverted", "throw"} :
          IF status = "throw"
          THEN /\ Throws(c)
               /\ UNCHANGED local
          ELSE /\ local' = [local EXCEPT ![c].status = status]
               /\ IF ~receiptSucceeded(status)
                  THEN SettleReturns(c, Failure(c, "invalid_transaction_state",
                                                local[c].tx))
                  ELSE SettleReturns(c, Success(c, local[c].tx))
    /\ UNCHANGED <<chain, inputs, paywall, mined, op, submitted, prior>>

(***************************************************************************)
(* The world around the calls. A call sees the world only through its      *)
(* reads, so the world makes its moves when a call is about to read: the   *)
(* clock before a Date.now(), the balance before getERC20Balance answers,  *)
(* the bytecode before getCode answers. Whatever it did earlier, between   *)
(* two calls or during other steps, shows as moves made at that point.     *)
(***************************************************************************)
BeforeClockRead == {"validBefore", "validAfter"}
BeforeBalanceRead == {"getERC20Balance"}
BeforeCodeRead == {"getCode", "settleGetCode"}

\* The wall clock advances.
Tick ==
    /\ \E c \in Sessions : pc[c] \in BeforeClockRead
    /\ nowMs < MaxTicks * TickMs
    /\ nowMs' = nowMs + TickMs
    /\ UNCHANGED <<balance, code, inputs, paywall, mined, op, pc, local, calls, submitted,
                   prior, result>>

\* Another transfer moves the payer's token balance.
Transfer ==
    /\ \E c \in Sessions : pc[c] \in BeforeBalanceRead
    /\ \E b \in Balances \ {balance} : balance' = b
    /\ UNCHANGED <<nowMs, code, inputs, paywall, mined, op, pc, local, calls, submitted,
                   prior, result>>

\* Somebody deploys the payer's smart wallet.
Deploy ==
    /\ \E c \in Sessions : pc[c] \in BeforeCodeRead
    /\ isEmptyBytecode(code)
    /\ code' = "0x6080"
    /\ UNCHANGED <<nowMs, balance, inputs, paywall, mined, op, pc, local, calls, submitted,
                   prior, result>>

Next ==
    \/ \E c \in Sessions : CallVerify(c)
    \/ \E c \in Sessions : CallSettle(c)
    \/ \E c \in Sessions : VerifyResolve(c)
    \/ \E c \in Sessions : VerifySignature(c)
    \/ \E c \in Sessions : VerifyValidBefore(c)
    \/ \E c \in Sessions : VerifyValidAfter(c)
    \/ \E c \in Sessions : VerifyBalance(c)
    \/ \E c \in Sessions : VerifyGetCode(c)
    \/ \E c \in Sessions : SettleVerified(c)
    \/ \E c \in Sessions : SettleGetCode(c)
    \/ \E c \in Sessions : SettleWrite(c)
    \/ \E c \in Sessions : SettleReceipt(c)
    \/ Tick
    \/ Transfer
    \/ Deploy

Spec == Init /\ [][Next]_vars

\* A call is resumed once what it awaits has responded: every step of a call
\* that can be taken is taken in the end, whatever the world does meanwhile.
Resumed(c) ==
    /\ WF_vars(VerifyResolve(c))
    /\ WF_vars(VerifySignature(c))
    /\ WF_vars(VerifyValidBefore(c))
    /\ WF_vars(VerifyValidAfter(c))
    /\ WF_vars(VerifyBalance(c))
    /\ WF_vars(VerifyGetCode(c))
    /\ WF_vars(SettleVerified(c))
    /\ WF_vars(SettleGetCode(c))
    /\ WF_vars(SettleWrite(c))
    /\ WF_vars(SettleReceipt(c))

\* For the question whether calls return, one payload for each way through
\* verify and settle: every rejection and every signature class stay, the
\* spellings that take the same way (an unprefixed signature, a lower-case
\* recipient, an overpaying value) go.
LivePayloads ==
    {p \in Payloads :
        /\ p.signature.prefixed
        /\ p.to.form = "checksum"
        /\ p.value <= MaxAmountRequired}

LiveInit ==
    /\ InitCommon
    /\ \E p \in LivePayloads, r \in Requirements :
          /\ payload = [c \in Sessions |-> IF c = "s1" THEN p ELSE DefaultPayload]
          /\ requirements =
                [c \in Sessions |-> IF c = "s1" THEN r ELSE DefaultRequirements]
    /\ pc = [c \in Sessions |-> IF c = "s1" THEN "idle" ELSE "off"]
    /\ paywall = NoResponse

FairSpec == LiveInit /\ [][Next]_vars /\ \A c \in Sessions : Resumed(c)

(***************************************************************************)
(* Two settle calls in flight at once, for two different authorizations of  *)
(* the same payer, whose balance covers one of them. Both signatures are    *)
(* EOA signatures. The chain executes a submitted transfer while the call   *)
(* waits for its receipt, if the balance still covers its value, and the    *)
(* receipt says which.                                                      *)
(***************************************************************************)
ConcurrentPayloads ==
    {[DefaultPayload EXCEPT !.value = v, !.validBefore = b] :
        v \in {MaxAmountRequired, MaxAmountRequired + 1}, b \in ValidBefores}

ConcurrentInit ==
    /\ InitCommon
    /\ \E p1 \in ConcurrentPayloads :
          \E p2 \in ConcurrentPayloads \ {p1} :
             payload = [c \in Sessions |-> IF c = "s1" THEN p1 ELSE p2]
    /\ requirements = [c \in Sessions |-> DefaultRequirements]
    /\ pc = [c \in Sessions |-> "idle"]
    /\ paywall = NoResponse

\* The chain executes the transfer session c has submitted.
Mine(c) ==
    /\ pc[c] = "waitForTransactionReceipt"
    /\ c \notin mined
    /\ balance >= payload[c].value
    /\ balance' = balance - payload[c].value
    /\ mined' = mined \cup {c}
    /\ UNCHANGED <<nowMs, code, inputs, paywall, op, pc, local, calls, submitted,
                   prior, result>>

\* The receipt reports success for an executed transfer alone.
ReceiptOfChain(c) ==
    /\ SettleReceipt(c)
    /\ local'[c].status = "success" => c \in mined
    /\ local'[c].status = "reverted" => c \notin mined

ConcurrentNext ==
    \/ \E c \in Sessions : CallSettle(c)
    \/ \E c \in Sessions : VerifyResolve(c)
    \/ \E c \in Sessions : VerifySignature(c)
    \/ \E c \in Sessions : VerifyValidBefore(c)
    \/ \E c \in Sessions : VerifyValidAfter(c)
    \/ \E c \in Sessions : VerifyBalance(c)
    \/ \E c \in Sessions : SettleVerified(c)
    \/ \E c \in Sessions : SettleWrite(c)
    \/ \E c \in Sessions : ReceiptOfChain(c)
    \/ \E c \in Sessions : Mine(c)

ConcurrentSpec == ConcurrentInit /\ [][ConcurrentNext]_vars

(***************************************************************************)
(* The paywall client alone: a 402 response has come in, with any body, and *)
(* the client decides whether to retry the payment.                        *)
(***************************************************************************)
PaywallInit ==
    /\ InitCommon
    /\ payload = [c \in Sessions |-> DefaultPayload]
    /\ requirements = [c \in Sessions |-> DefaultRequirements]
    /\ pc = [c \in Sessions |-> "off"]
    /\ \E errorData \in ErrorDatas :
          paywall = Response(errorData, FALSE, [shouldRetry |-> TRUE, errorMessage |-> ""])

Handle402 ==
    /\ ~paywall.handled
    /\ paywall' = Response(paywall.errorData, TRUE, handle402(paywall.errorData))
    /\ UNCHANGED <<chain, inputs, mined, op, pc, local, calls, submitted, prior,
                   result>>

PaywallNext == Handle402

PaywallSpec == PaywallInit /\ [][PaywallNext]_vars

(***************************************************************************)
(* Properties                                                              *)
(***************************************************************************)
\* The verify of session c has returned a VerifyResponse (to its caller, or to
\* the settle call that awaited it); local[c].valid holds it.
VerifyRan(c) == local[c].valid.kind = "VerifyResponse"

Submissions(c) == calls[c].writeContract

AcceptedEarlier(c) == prior[c].kind = "VerifyResponse" /\ prior[c].isValid

EmptyCodes == {Undefined, "0x"}

UndeployedReason == "invalid_exact_evm_payload_undeployed_smart_wallet"

\* C1: settle never submits a transaction when its internal re-verification
\* fails: whenever the verify run inside a settle call has returned
\* isValid = false, that settle call has made no writeContract call.
C1_NoSubmissionWhenReverifyFails ==
    \A c \in Sessions :
        (op[c] = "settle" /\ VerifyRan(c) /\ ~local[c].valid.isValid)
            => (Submissions(c) = 0 /\ submitted[c] = <<>>)

C1_Witness ==
    \E c \in Sessions :
        /\ op[c] = "settle" /\ pc[c] = "done"
        /\ VerifyRan(c) /\ ~local[c].valid.isValid
        /\ result[c].kind = "SettleResponse" /\ ~result[c].success

\* The order of the checks and the reason each one reports.
CheckOrder ==
    << "unsupported_scheme", "invalid_network", "invalid_exact_evm_payload_signature",
       "invalid_exact_evm_payload_recipient_mismatch",
       "invalid_exact_evm_payload_authorization_valid_before",
       "invalid_exact_evm_payload_authorization_valid_after",
       "insufficient_funds", "invalid_exact_evm_payload_authorization_value",
       UndeployedReason >>

\* Check k fails on the payload, the requirements and the values read.
CheckFails(c, k) ==
    LET p == payload[c]
        r == requirements[c]
        loc == local[c]
    IN CASE k = 1 -> p.scheme # "exact" \/ r.scheme # "exact"
         [] k = 2 -> \/ p.network = "unknown"
                     \/ p.network = "unconfigured" /\ ~r.extraName
                     \/ loc.version = "throw"
         [] k = 3 -> loc.recovered = "false"
         [] k = 4 -> p.to.account # r.payTo.account
         [] k = 5 -> loc.now1 # Unread /\ p.validBefore < loc.now1 + 6
         [] k = 6 -> loc.now2 # Unread /\ p.validAfter > loc.now2
         [] k = 7 -> loc.balance # Unread /\ loc.balance < r.maxAmountRequired
         [] k = 8 -> p.value < r.maxAmountRequired
         [] k = 9 -> /\ p.signature.hexLen > 130
                     /\ loc.bytecode \in EmptyCodes
                     /\ p.signature.wrapper # "erc6492"

\* Check k was made and passed.
CheckPasses(c, k) ==
    LET p == payload[c]
        r == requirements[c]
        loc == local[c]
    IN CASE k = 1 -> p.scheme = "exact" /\ r.scheme = "exact"
         [] k = 2 -> /\ p.network # "unknown"
                     /\ p.network = "unconfigured" => r.extraName
                     /\ loc.version \in {"extra", "2"}
         [] k = 3 -> loc.recovered = "true"
         [] k = 4 -> p.to.account = r.payTo.account
         [] k = 5 -> loc.now1 # Unread /\ p.validBefore >= loc.now1 + 6
         [] k = 6 -> loc.now2 # Unread /\ p.validAfter <= loc.now2
         [] k = 7 -> loc.balance # Unread /\ loc.balance >= r.maxAmountRequired
         [] k = 8 -> p.value >= r.maxAmountRequired
         [] k = 9 -> \/ p.signature.hexLen <= 130
                     \/ loc.bytecode = "0x6080"
                     \/ p.signature.wrapper = "erc6492"

\* C2: verify applies its checks in the order scheme, network, signature,
\* recipient, validBefore, validAfter, balance, value, wallet deployment and
\* stops at the first failure: the reason of every rejection is the reason of a
\* check that fails, and every check before it was made and passed.
C2_EarliestFailingCheckReported ==
    \A c \in Sessions :
        (VerifyRan(c) /\ ~local[c].valid.isValid)
            => \E k \in 1..Len(CheckOrder) :
                  /\ local[c].valid.invalidReason = CheckOrder[k]
                  /\ CheckFails(c, k)
                  /\ \A j \in 1..(k - 1) : CheckPasses(c, j)

\* A rejection for the balance of a payload whose value is too small as well and
\* whose smart wallet has no way to be deployed.
C2_Witness ==
    \E c \in Sessions :
        /\ VerifyRan(c)
        /\ local[c].valid.invalidReason = "insufficient_funds"
        /\ payload[c].value < requirements[c].maxAmountRequired
        /\ payload[c].signature.hexLen > 130
        /\ payload[c].signature.wrapper = "none"

\* C3: whenever verify returns isValid = true, every check held on the values
\* it read: both schemes are the exact scheme, the signature check succeeded,
\* the normalized recipient is the normalized payTo, the value and the balance
\* read are at least maxAmountRequired, and the payer is authorization.from.
C3_AcceptanceImpliesAllChecks ==
    \A c \in Sessions :
        (VerifyRan(c) /\ local[c].valid.isValid)
            => /\ payload[c].scheme = "exact"
               /\ requirements[c].scheme = "exact"
               /\ local[c].recovered = "true"
               /\ payload[c].to.account = requirements[c].payTo.account
               /\ payload[c].value >= requirements[c].maxAmountRequired
               /\ local[c].balance # Unread
               /\ local[c].balance >= requirements[c].maxAmountRequired
               /\ local[c].valid.payer = payload[c].from

C3_Witness ==
    \E c \in Sessions :
        /\ op[c] = "verify" /\ pc[c] = "done"
        /\ result[c].kind = "VerifyResponse" /\ result[c].isValid
        /\ payload[c].to.form = "lower"

\* C4: in every VerifyResponse, isValid = true carries no invalidReason and
\* isValid = false carries one.
C4_ReasonExactlyWhenInvalid ==
    \A c \in Sessions :
        /\ VerifyRan(c) =>
              (local[c].valid.isValid <=> local[c].valid.invalidReason = Undefined)
        /\ (op[c] = "verify" /\ result[c].kind = "VerifyResponse") =>
              (result[c].isValid <=> result[c].invalidReason = Undefined)

C4_Witness ==
    \E c \in Sessions :
        /\ op[c] = "verify" /\ pc[c] = "done"
        /\ result[c].kind = "VerifyResponse"
        /\ ~result[c].isValid
        /\ result[c].invalidReason = UndeployedReason

\* C5: every VerifyResponse, on acceptance and on every rejection, carries
\* payer = authorization.from.
C5_PayerIsFrom ==
    \A c \in Sessions :
        /\ VerifyRan(c) => local[c].valid.payer = payload[c].from
        /\ (op[c] = "verify" /\ result[c].kind = "VerifyResponse") =>
              result[c].payer = payload[c].from

C5_Witness ==
    \E c \in Sessions :
        /\ op[c] = "verify" /\ pc[c] = "done"
        /\ result[c].kind = "VerifyResponse"
        /\ ~result[c].isValid
        /\ result[c].payer = payload[c].from
        /\ payload[c].to # payload[c].from

\* C6: within one settle call verification strictly precedes submission: every
\* step that issues a writeContract call starts in a state where the verify
\* run inside that settle call has returned isValid = true.
C6_VerifyPrecedesSubmission ==
    [][\A c \in Sessions :
          calls'[c].writeContract > calls[c].writeContract
              => /\ op[c] = "settle"
                 /\ VerifyRan(c)
                 /\ local[c].valid.isValid]_vars

C6_Witness ==
    \E c \in Sessions :
        /\ op[c] = "settle"
        /\ Submissions(c) = 1
        /\ VerifyRan(c) /\ local[c].valid.isValid

\* C7: an acceptance by a standalone verify is not carried into settle: when
\* the settle that follows reads a balance below maxAmountRequired, or a clock
\* for which validBefore < now + 6, it makes no submission and returns
\* success = false with that check's reason.
C7_SettleRechecksAfterAcceptance ==
    \A c \in Sessions :
        (AcceptedEarlier(c) /\ op[c] = "settle")
            => /\ (local[c].balance # Unread
                     /\ local[c].balance < requirements[c].maxAmountRequired)
                    => /\ Submissions(c) = 0
                       /\ pc[c] = "done" =>
                             result[c] = SettleResponse(FALSE, "insufficient_funds", "",
                                             payload[c].network, payload[c].from)
               /\ (local[c].now1 # Unread
                     /\ payload[c].validBefore < local[c].now1 + 6)
                    => /\ Submissions(c) = 0
                       /\ pc[c] = "done" =>
                             result[c] = SettleResponse(FALSE,
                                             "invalid_exact_evm_payload_authorization_valid_before",
                                             "", payload[c].network, payload[c].from)

C7_Witness ==
    \E c \in Sessions :
        /\ AcceptedEarlier(c) /\ op[c] = "settle" /\ pc[c] = "done"
        /\ local[c].balance # Unread
        /\ local[c].balance < requirements[c].maxAmountRequired
        /\ result[c].kind = "SettleResponse"
        /\ result[c].errorReason = "insufficient_funds"

\* C8: an undeployed contract wallet whose signature carries no deployment
\* metadata fails verify with the undeployed-wallet reason once the earlier
\* checks have passed, and settle returns that reason with an empty
\* transaction and never calls writeContract.
C8_UndeployedWithoutMetadataRejected ==
    \A c \in Sessions :
      /\ (VerifyRan(c) /\ code \in EmptyCodes
            /\ payload[c].signature.hexLen > 130
            /\ payload[c].signature.wrapper = "none"
            /\ \A j \in 1..8 : CheckPasses(c, j))
           => local[c].valid = VerifyResponse(FALSE, UndeployedReason, payload[c].from)
      /\ (local[c].bytecode \in EmptyCodes /\ payload[c].signature.wrapper = "none")
            => /\ local[c].valid = VerifyResponse(FALSE, UndeployedReason, payload[c].from)
               /\ Submissions(c) = 0
               /\ pc[c] = "done" =>
                     IF op[c] = "verify"
                     THEN result[c] = local[c].valid
                     ELSE result[c] = SettleResponse(FALSE, UndeployedReason, "",
                                          payload[c].network, payload[c].from)

C8_Witness ==
    \E c \in Sessions :
        /\ op[c] = "settle" /\ pc[c] = "done"
        /\ local[c].bytecode \in EmptyCodes
        /\ payload[c].signature.wrapper = "none"
        /\ result[c].kind = "SettleResponse"

\* C9: an undeployed contract wallet whose signature carries deployment metadata
\* passes verify; settle rejects it for being undeployed exactly when its own
\* bytecode read is still empty, without a submission, and goes on to the
\* submission when its own read finds the wallet deployed.
C9_UndeployedWithMetadata ==
    \A c \in Sessions :
      /\ (VerifyRan(c)
            /\ payload[c].signature.hexLen > 130
            /\ payload[c].signature.wrapper = "erc6492"
            /\ \A j \in 1..8 : CheckPasses(c, j))
           => local[c].valid = VerifyResponse(TRUE, Undefined, payload[c].from)
      /\ (local[c].bytecode \in EmptyCodes /\ payload[c].signature.wrapper = "erc6492")
            => /\ local[c].valid = VerifyResponse(TRUE, Undefined, payload[c].from)
               /\ local[c].settleBytecode \in EmptyCodes
                    => /\ Submissions(c) = 0
                       /\ pc[c] = "done"
                       /\ result[c] = SettleResponse(FALSE, UndeployedReason, "",
                                          payload[c].network, payload[c].from)
               /\ local[c].settleBytecode = "0x6080"
                    => /\ pc[c] \in {"writeContract", "waitForTransactionReceipt", "done"}
                       /\ pc[c] # "writeContract" => Submissions(c) = 1
               /\ (pc[c] = "done" /\ result[c].kind = "SettleResponse"
                     /\ result[c].errorReason = UndeployedReason)
                    => local[c].settleBytecode \in EmptyCodes

\* Undeployed when verify read the bytecode, deployed when settle read it.
C9_Witness ==
    \E c \in Sessions :
        /\ op[c] = "settle"
        /\ payload[c].signature.wrapper = "erc6492"
        /\ local[c].bytecode \in EmptyCodes
        /\ local[c].settleBytecode = "0x6080"
        /\ Submissions(c) = 1

\* C10: a signature of 130 hex digits is handled as an EOA signature and one of
\* 132 hex digits or more as a contract-wallet signature, with or without a
\* leading 0x: verify reads the bytecode for the latter alone, and settle
\* submits the former through the (v, r, s) overload and the latter through
\* the bytes overload.
C10_ClassificationByLength ==
    \A c \in Sessions :
        LET n == payload[c].signature.hexLen
        IN /\ (VerifyRan(c) /\ local[c].valid.isValid)
                => /\ n = 130 => local[c].bytecode = "unread"
                   /\ n >= 132 => local[c].bytecode # "unread"
           /\ \A i \in DOMAIN submitted[c] :
                /\ n = 130 => submitted[c][i].overload = "vrs"
                /\ n >= 132 => submitted[c][i].overload = "bytes"

C10_Witness ==
    \E c \in Sessions :
        /\ ~payload[c].signature.prefixed
        /\ payload[c].signature.hexLen = 132
        /\ submitted[c] # <<>>
        /\ submitted[c][1].overload = "bytes"

\* C11, as stated: a signature is handled as an EOA signature only at 130 hex
\* digits; at every other length, a shorter one included, verify reads the
\* bytecode before it accepts and settle submits through the bytes overload.
C11_EveryOtherLengthIsContractWallet ==
    \A c \in Sessions :
        payload[c].signature.hexLen # EoaHexLength
            => /\ (VerifyRan(c) /\ local[c].valid.isValid)
                    => local[c].bytecode # "unread"
               /\ \A i \in DOMAIN submitted[c] : submitted[c][i].overload = "bytes"

\* C11, amended: at a length other than 130 hex digits a signature is handled as
\* a contract-wallet signature exactly when it is longer than 130 hex digits: a
\* shorter one is handled as an EOA signature, verify accepts it without a
\* bytecode read, settle never reads the bytecode for it and submits it, if at
\* all, through the (v, r, s) overload.
C11_ContractWalletOnlyAboveEoaLength ==
    \A c \in Sessions :
        LET n == payload[c].signature.hexLen
        IN n # EoaHexLength
            => /\ (VerifyRan(c) /\ local[c].valid.isValid)
                    => (local[c].bytecode # "unread" <=> n > EoaHexLength)
               /\ n < EoaHexLength
                    => /\ calls[c].getCode = 0
                       /\ local[c].settleBytecode = "unread"
               /\ \A i \in DOMAIN submitted[c] :
                    submitted[c][i].overload
                        = (IF n > EoaHexLength THEN "bytes" ELSE "vrs")

\* verify has accepted a signature of 128 hex digits of a payer whose address
\* holds no code, and has not read the bytecode.
C11_Witness ==
    \E c \in Sessions :
        /\ payload[c].signature.hexLen < EoaHexLength
        /\ op[c] = "verify"
        /\ pc[c] = "done"
        /\ result[c].kind = "VerifyResponse"
        /\ result[c].isValid
        /\ local[c].bytecode = "unread"
        /\ isEmptyBytecode(code)

\* C12: the bytecode at authorization.from is read for a contract-wallet
\* signature alone: for an EOA signature neither verify nor settle issues a
\* getCode call, a settle whose verification passed goes on to the submission,
\* and a well-formed EOA signature is submitted whatever the bytecode is.
C12_BytecodeReadOnlyForContractWallet ==
    \A c \in Sessions :
        LET sig == payload[c].signature
            eoa == sig.hexLen <= EoaHexLength
            passed == op[c] = "settle" /\ VerifyRan(c) /\ local[c].valid.isValid
        IN /\ (calls[c].getCode > 0 \/ pc[c] \in {"getCode", "settleGetCode"})
                => sig.hexLen > EoaHexLength
           /\ eoa => local[c].bytecode = "unread" /\ local[c].settleBytecode = "unread"
           /\ (eoa /\ passed)
                => pc[c] \in {"verified", "writeContract",
                              "waitForTransactionReceipt", "done"}
           /\ (sig.prefixed /\ sig.hexLen = EoaHexLength /\ passed
                 /\ pc[c] \in {"waitForTransactionReceipt", "done"})
                => Submissions(c) = 1 /\ Len(submitted[c]) = 1

\* A settle of an EOA authorization has succeeded while the payer's address
\* holds no code, and no getCode call was issued.
C12_Witness ==
    \E c \in Sessions :
        /\ payload[c].signature.hexLen = EoaHexLength
        /\ isEmptyBytecode(code)
        /\ op[c] = "settle"
        /\ result[c].kind = "SettleResponse"
        /\ result[c].success
        /\ Submissions(c) = 1
        /\ calls[c].getCode = 0

\* C13: when the scheme of the payload or of the requirements is not "exact",
\* verify answers unsupported_scheme with the payer, and the call issues no
\* external read at all: no version, signature, balance or bytecode query, and
\* no submission.
C13_SchemeMismatchBeforeAnyRead ==
    \A c \in Sessions :
        (payload[c].scheme # "exact" \/ requirements[c].scheme # "exact")
            => /\ calls[c] = NoCalls
               /\ submitted[c] = <<>>
               /\ local[c].version = "unread"
               /\ pc[c] \in {"off", "idle", "verify", "verified", "done"}
               /\ VerifyRan(c)
                    => /\ ~local[c].valid.isValid
                       /\ local[c].valid.invalidReason = "unsupported_scheme"
                       /\ local[c].valid.payer = payload[c].from

\* verify has rejected a payload of scheme "upto" on a network nobody knows,
\* presented against requirements of scheme "exact".
C13_Witness ==
    \E c \in Sessions :
        /\ payload[c].scheme = "upto"
        /\ requirements[c].scheme = "exact"
        /\ payload[c].network = "unknown"
        /\ op[c] = "verify"
        /\ pc[c] = "done"
        /\ result[c].kind = "VerifyResponse"
        /\ result[c].invalidReason = "unsupported_scheme"

\* C14: with both schemes "exact", when the network is unknown, or the chain
\* has no configuration entry and the requirements give no token name, or the
\* live version read fails, verify answers invalid_network with the payer, and
\* the call issues no signature, balance or bytecode query and no submission;
\* in the first two cases the version is not read either.
C14_UnresolvedNetworkBeforeQueries ==
    \A c \in Sessions :
        LET p == payload[c]
            r == requirements[c]
            unknown == p.network = "unknown"
            unconfigured == p.network = "unconfigured" /\ ~r.extraName
            versionFailed == local[c].version = "throw"
        IN (p.scheme = "exact" /\ r.scheme = "exact"
              /\ (unknown \/ unconfigured \/ versionFailed))
            => /\ calls[c].verifyTypedData = 0
               /\ calls[c].getERC20Balance = 0
               /\ calls[c].getCode = 0
               /\ calls[c].writeContract = 0
               /\ (unknown \/ unconfigured) => calls[c].getVersion = 0
               /\ pc[c] \in {"off", "idle", "verify", "verified", "done"}
               /\ VerifyRan(c)
                    => /\ ~local[c].valid.isValid
                       /\ local[c].valid.invalidReason = "invalid_network"
                       /\ local[c].valid.payer = p.from

\* verify has answered invalid_network after a version read that failed, on a
\* configured network.
C14_Witness ==
    \E c \in Sessions :
        /\ payload[c].network = "base-sepolia"
        /\ ~requirements[c].extraVersion
        /\ calls[c].getVersion = 1
        /\ local[c].version = "throw"
        /\ op[c] = "verify"
        /\ result[c].kind = "VerifyResponse"
        /\ result[c].invalidReason = "invalid_network"
        /\ calls[c].verifyTypedData = 0

\* C15: when the scheme and the network resolve and the signature engine
\* recovers no signer, or a signer other than authorization.from, verify
\* answers invalid_exact_evm_payload_signature with the payer, and reads
\* neither the balance nor the bytecode; a settle submits nothing.
C15_RecoveryFailureOrMismatchRejected ==
    \A c \in Sessions :
        local[c].engine \in {"failure", "mismatch"}
            => /\ VerifyRan(c)
               /\ ~local[c].valid.isValid
               /\ local[c].valid.invalidReason = "invalid_exact_evm_payload_signature"
               /\ local[c].valid.payer = payload[c].from
               /\ calls[c].getERC20Balance = 0
               /\ calls[c].getCode = 0
               /\ submitted[c] = <<>>
               /\ pc[c] \in {"verified", "done"}

\* verify has answered invalid_exact_evm_payload_signature for a signature no
\* signer could be recovered from.
C15_Witness ==
    \E c \in Sessions :
        /\ local[c].engine = "failure"
        /\ op[c] = "verify"
        /\ pc[c] = "done"
        /\ result[c].kind = "VerifyResponse"
        /\ result[c].invalidReason = "invalid_exact_evm_payload_signature"

\* C16: once the signature is verified, verify answers
\* invalid_exact_evm_payload_recipient_mismatch, before any clock, balance or
\* bytecode read, for every authorization whose to is another account than
\* payTo; when to is the account of payTo, in whatever letter case, verify does
\* not answer with that reason: it rejects for one of the later checks or
\* accepts.
C16_RecipientComparedByValue ==
    \A c \in Sessions :
        LET p == payload[c]
            r == requirements[c]
            LaterReasons == {CheckOrder[k] : k \in 5..9}
        IN local[c].recovered = "true"
            => /\ p.to.account # r.payTo.account
                    => /\ VerifyRan(c)
                       /\ ~local[c].valid.isValid
                       /\ local[c].valid.invalidReason
                            = "invalid_exact_evm_payload_recipient_mismatch"
                       /\ local[c].now1 = Unread
                       /\ calls[c].getERC20Balance = 0
                       /\ calls[c].getCode = 0
               /\ (p.to.account = r.payTo.account /\ VerifyRan(c))
                    => \/ local[c].valid.isValid
                       \/ local[c].valid.invalidReason \in LaterReasons

\* verify has rejected an authorization to another account than payTo, both
\* addresses written in checksum case.
C16_Witness ==
    \E c \in Sessions :
        /\ payload[c].to.account # requirements[c].payTo.account
        /\ payload[c].to.form = requirements[c].payTo.form
        /\ local[c].recovered = "true"
        /\ op[c] = "verify"
        /\ pc[c] = "done"
        /\ result[c].kind = "VerifyResponse"
        /\ result[c].invalidReason = "invalid_exact_evm_payload_recipient_mismatch"

\* C17: with now the second verify reads for the deadline check, it answers
\* invalid_exact_evm_payload_authorization_valid_before for every authorization
\* whose validBefore is below now + 6, whatever validAfter, the value and the
\* balance are, and validBefore = now + 5 is such a case; with validBefore at
\* now + 6 or later verify never answers with that reason.
C17_DeadlineSixSecondsAway ==
    \A c \in Sessions :
        LET p == payload[c]
            now == local[c].now1
        IN now # Unread
            => /\ p.validBefore < now + 6
                    => /\ VerifyRan(c)
                       /\ ~local[c].valid.isValid
                       /\ local[c].valid.invalidReason
                            = "invalid_exact_evm_payload_authorization_valid_before"
                       /\ local[c].now2 = Unread
                       /\ calls[c].getERC20Balance = 0
               /\ p.validBefore = now + 5 => ~local[c].valid.isValid
               /\ (p.validBefore >= now + 6 /\ VerifyRan(c))
                    => local[c].valid.invalidReason
                         # "invalid_exact_evm_payload_authorization_valid_before"
               /\ (p.validBefore = now + 6 /\ ~VerifyRan(c))
                    => \/ pc[c] \in {"validAfter", "getERC20Balance", "getCode"}
                       \/ result[c] = Thrown

\* verify has rejected an authorization whose deadline is 5 seconds after the
\* second it read, everything else about it being in order.
C17_Witness ==
    \E c \in Sessions :
        /\ local[c].now1 # Unread
        /\ payload[c].validBefore = local[c].now1 + 5
        /\ payload[c].validAfter = 0
        /\ payload[c].value = requirements[c].maxAmountRequired
        /\ op[c] = "verify"
        /\ result[c].kind = "VerifyResponse"
        /\ result[c].invalidReason
             = "invalid_exact_evm_payload_authorization_valid_before"

\* C18: with now the second verify reads for the start-of-validity check, it
\* answers invalid_exact_evm_payload_authorization_valid_after, before the
\* balance is read, for every authorization whose validAfter is above now; with
\* validAfter at now or earlier verify never answers with that reason and goes
\* on to the balance read.
C18_NotValidBeforeItsStart ==
    \A c \in Sessions :
        LET p == payload[c]
            now == local[c].now2
        IN now # Unread
            => /\ p.validAfter > now
                    => /\ VerifyRan(c)
                       /\ ~local[c].valid.isValid
                       /\ local[c].valid.invalidReason
                            = "invalid_exact_evm_payload_authorization_valid_after"
                       /\ calls[c].getERC20Balance = 0
               /\ (p.validAfter <= now /\ VerifyRan(c))
                    => local[c].valid.invalidReason
                         # "invalid_exact_evm_payload_authorization_valid_after"
               /\ (p.validAfter = now /\ ~VerifyRan(c))
                    => \/ pc[c] \in {"getERC20Balance", "getCode"}
                       \/ result[c] = Thrown

\* verify has accepted an authorization that became valid in the very second
\* it read, after the clock had moved.
C18_Witness ==
    \E c \in Sessions :
        /\ local[c].now2 = 1
        /\ payload[c].validAfter = local[c].now2
        /\ op[c] = "verify"
        /\ result[c].kind = "VerifyResponse"
        /\ result[c].isValid

\* C19: whenever verify accepts, one clock value it read during the call, the
\* second of the deadline check or the second of the start-of-validity check,
\* satisfies validAfter <= now <= validBefore - 6. The two checks read the clock
\* separately, and this fails when a second boundary passes between them.
C19_WindowAtOneClockValue ==
    \A c \in Sessions :
        (VerifyRan(c) /\ local[c].valid.isValid)
            => \E now \in {local[c].now1, local[c].now2} :
                  /\ payload[c].validAfter <= now
                  /\ now <= payload[c].validBefore - 6

\* C20: once the balance is read, verify answers insufficient_funds with the
\* payer, before any bytecode read, for every balance below maxAmountRequired:
\* when authorization.value covers maxAmountRequired, and when it is below it
\* as well (the value reason is not the one reported).
C20_BalanceBelowRequiredRejected ==
    \A c \in Sessions :
        (local[c].balance # Unread
           /\ local[c].balance < requirements[c].maxAmountRequired)
            => /\ VerifyRan(c)
               /\ ~local[c].valid.isValid
               /\ local[c].valid.invalidReason = "insufficient_funds"
               /\ local[c].valid.payer = payload[c].from
               /\ calls[c].getCode = 0
               /\ submitted[c] = <<>>

\* verify has answered insufficient_funds for an authorization whose value is
\* below maxAmountRequired too.
C20_Witness ==
    \E c \in Sessions :
        /\ local[c].balance # Unread
        /\ local[c].balance < requirements[c].maxAmountRequired
        /\ payload[c].value < requirements[c].maxAmountRequired
        /\ op[c] = "verify"
        /\ pc[c] = "done"
        /\ result[c].kind = "VerifyResponse"
        /\ result[c].invalidReason = "insufficient_funds"

\* C21: once a balance of maxAmountRequired or more is read, verify answers
\* invalid_exact_evm_payload_authorization_value, before any bytecode read,
\* when authorization.value is below maxAmountRequired, and never answers with
\* that reason when the value is maxAmountRequired or more.
C21_ValueBelowRequiredRejected ==
    \A c \in Sessions :
        LET p == payload[c]
            r == requirements[c]
        IN (local[c].balance # Unread /\ local[c].balance >= r.maxAmountRequired)
            => /\ p.value < r.maxAmountRequired
                    => /\ VerifyRan(c)
                       /\ ~local[c].valid.isValid
                       /\ local[c].valid.invalidReason
                            = "invalid_exact_evm_payload_authorization_value"
                       /\ local[c].valid.payer = p.from
                       /\ calls[c].getCode = 0
               /\ (p.value >= r.maxAmountRequired /\ VerifyRan(c))
                    => /\ local[c].valid.invalidReason
                            # "invalid_exact_evm_payload_authorization_value"
                       /\ p.signature.hexLen <= 130 => local[c].valid.isValid

\* verify has accepted an authorization of more than maxAmountRequired.
C21_Witness ==
    \E c \in Sessions :
        /\ local[c].balance # Unread
        /\ payload[c].value > requirements[c].maxAmountRequired
        /\ op[c] = "verify"
        /\ pc[c] = "done"
        /\ result[c].kind = "VerifyResponse"
        /\ result[c].isValid

\* C22: when the verify inside settle rejects, settle returns without a
\* bytecode read, a submission or a receipt wait of its own: success = false,
\* an empty transaction, the network of the payload, authorization.from as the
\* payer, and as errorReason the invalidReason verify returned; the generic
\* invalid_scheme stands in only for an absent reason.
C22_FailedReverifyEchoed ==
    \A c \in Sessions :
        (op[c] = "settle" /\ VerifyRan(c) /\ ~local[c].valid.isValid)
            => /\ pc[c] \in {"verified", "done"}
               /\ local[c].settleBytecode = "unread"
               /\ calls[c].writeContract = 0
               /\ calls[c].waitForTransactionReceipt = 0
               /\ pc[c] = "done"
                    => /\ result[c].kind = "SettleResponse"
                       /\ result[c].success = FALSE
                       /\ result[c].transaction = ""
                       /\ result[c].network = payload[c].network
                       /\ result[c].payer = payload[c].from
                       /\ local[c].valid.invalidReason # "undefined"
                            => result[c].errorReason = local[c].valid.invalidReason
                       /\ result[c].errorReason = "invalid_scheme"
                            => local[c].valid.invalidReason = "undefined"

\* settle has returned the valid-before reason of its verify, with an empty
\* transaction.
C22_Witness ==
    \E c \in Sessions :
        /\ op[c] = "settle"
        /\ pc[c] = "done"
        /\ local[c].valid.kind = "VerifyResponse"
        /\ local[c].valid.invalidReason
             = "invalid_exact_evm_payload_authorization_valid_before"
        /\ result[c].kind = "SettleResponse"
        /\ result[c].errorReason
             = "invalid_exact_evm_payload_authorization_valid_before"
        /\ result[c].transaction = ""

\* C23: settle waits for the receipt only with the transaction hash the
\* submission returned, and once the receipt is in it returns that hash, the
\* network and the payer: with success = true and no errorReason when the
\* status of the receipt is success, with success = false and errorReason
\* invalid_transaction_state when it is anything else.
C23_ReceiptDecidesOutcome ==
    \A c \in Sessions :
        /\ pc[c] = "waitForTransactionReceipt"
             => local[c].tx # "" /\ Submissions(c) = 1
        /\ local[c].status # "unread"
             => /\ calls[c].waitForTransactionReceipt = 1
                /\ local[c].tx # ""
                /\ result[c].kind = "SettleResponse"
                /\ result[c].transaction = local[c].tx
                /\ result[c].network = payload[c].network
                /\ result[c].payer = payload[c].from
                /\ local[c].status = "success"
                     => result[c].success /\ result[c].errorReason = "undefined"
                /\ local[c].status # "success"
                     => /\ ~result[c].success
                        /\ result[c].errorReason = "invalid_transaction_state"

\* settle has reported a reverted transaction with its hash.
C23_Witness ==
    \E c \in Sessions :
        /\ local[c].status = "reverted"
        /\ result[c].kind = "SettleResponse"
        /\ ~result[c].success
        /\ result[c].transaction = "0xtxhash"

\* C24: one settle call invokes the submission at most once: a rejected
\* submission ends the call, and so does a receipt, reverted or not; neither
\* leads back to a second writeContract.
C24_AtMostOneSubmission ==
    \A c \in Sessions :
        /\ calls[c].writeContract <= 1
        /\ Len(submitted[c]) = calls[c].writeContract
        /\ calls[c].waitForTransactionReceipt <= calls[c].writeContract
        /\ (calls[c].writeContract = 1 /\ local[c].tx = "") => pc[c] = "done"
        /\ local[c].status # "unread" => pc[c] = "done"

\* The chain writer has rejected the one submission of a settle call, and the
\* call has ended.
C24_Witness ==
    \E c \in Sessions :
        /\ op[c] = "settle"
        /\ pc[c] = "done"
        /\ calls[c].writeContract = 1
        /\ local[c].tx = ""
        /\ calls[c].waitForTransactionReceipt = 0

\* C25: when the chain writer rejects the submission, no hash being returned,
\* settle returns a SettleResponse with success = false. settle awaits
\* writeContract outside any try block, and the rejection leaves the call as
\* an exception instead.
C25_RejectedSubmissionReported ==
    \A c \in Sessions :
        (op[c] = "settle" /\ pc[c] = "done"
           /\ calls[c].writeContract = 1 /\ local[c].tx = "")
            => /\ result[c].kind = "SettleResponse"
               /\ ~result[c].success

\* C26: when the version read or the balance query of verify fails, verify
\* returns a VerifyResponse with isValid = false and a reason, and never one
\* with isValid = true. The failed version read is caught and answered with
\* invalid_network; the failed balance query is awaited outside any try block
\* and leaves the call as an exception.
C26_ReadFailuresRejected ==
    \A c \in Sessions :
        LET versionFailed == local[c].version = "throw"
            balanceFailed == /\ calls[c].getERC20Balance = 1
                             /\ local[c].balance = Unread
                             /\ pc[c] # "getERC20Balance"
        IN (versionFailed \/ balanceFailed)
            => /\ VerifyRan(c)
               /\ ~local[c].valid.isValid
               /\ local[c].valid.invalidReason # "undefined"

\* C27: in the submission of an EOA authorization the recovery id is the v of
\* the parsed signature when it has one, and 27 for parity 0, 28 for parity 1
\* when it has none; r and s are those of the parsed signature.
C27_RecoveryIdFromVOrParity ==
    \A c \in Sessions :
        \A i \in DOMAIN submitted[c] :
            LET parsedSig == local[c].parsedSig
                request == submitted[c][i]
            IN payload[c].signature.hexLen <= 130
                => /\ parsedSig \in ParsedSignatures
                   /\ request.r = parsedSig.r
                   /\ request.s = parsedSig.s
                   /\ request.r # request.s
                   /\ parsedSig.v # -1 => request.v = parsedSig.v
                   /\ (parsedSig.v = -1 /\ parsedSig.yParity = 0) => request.v = 27
                   /\ (parsedSig.v = -1 /\ parsedSig.yParity = 1) => request.v = 28

\* An EOA authorization whose parsed signature has parity 1 and no v has been
\* submitted with recovery id 28.
C27_Witness ==
    \E c \in Sessions :
        /\ payload[c].signature.hexLen = 130
        /\ submitted[c] # <<>>
        /\ local[c].parsedSig.v = -1
        /\ local[c].parsedSig.yParity = 1
        /\ submitted[c][1].v = 28

\* C28: the signature decides the interface of the submission. One of more
\* than 130 hex digits goes through the bytes overload alone, carrying the
\* signature as it came when it has no ERC-6492 wrapper and the inner signature
\* of the wrapper when it has one, and no v, r, s; one of 130 hex digits or
\* fewer goes through the (v, r, s) overload alone, carrying no signature
\* bytes.
C28_InterfaceFixedBySignature ==
    \A c \in Sessions :
        \A i \in DOMAIN submitted[c] :
            LET sig == payload[c].signature
                request == submitted[c][i]
            IN /\ request.functionName = "transferWithAuthorization"
               /\ sig.hexLen > 130
                    => /\ request.overload = "bytes"
                       /\ request.r = "undefined"
                       /\ request.s = "undefined"
                       /\ request.signature.wrapper = "none"
                       /\ sig.wrapper = "none" => request.signature = sig
                       /\ sig.wrapper = "erc6492"
                            => request.signature.hexLen < sig.hexLen
               /\ sig.hexLen <= 130
                    => /\ request.overload = "vrs"
                       /\ request.signature = "undefined"
                       /\ request.v \in {27, 28}

\* A signature in an ERC-6492 wrapper has been submitted through the bytes
\* overload without its wrapper.
C28_Witness ==
    \E c \in Sessions :
        /\ payload[c].signature.wrapper = "erc6492"
        /\ submitted[c] # <<>>
        /\ submitted[c][1].overload = "bytes"
        /\ submitted[c][1].signature.wrapper = "none"

\* C29: a verify call, and the verify inside a settle call, invokes neither
\* writeContract nor the receipt wait; what settle writes is one
\* transferWithAuthorization call of the authorization at most, never another
\* function, also for a signature that carries ERC-6492 deployment information;
\* and when settle reads an empty bytecode it submits nothing, the wallet
\* staying undeployed.
C29_VerifyReadsSettleOnlyTransfers ==
    \A c \in Sessions :
        /\ (op[c] = "verify" \/ ~VerifyRan(c))
             => /\ calls[c].writeContract = 0
                /\ calls[c].waitForTransactionReceipt = 0
                /\ submitted[c] = <<>>
                /\ local[c].tx = ""
        /\ Len(submitted[c]) <= 1
        /\ \A i \in DOMAIN submitted[c] :
                /\ submitted[c][i].functionName = "transferWithAuthorization"
                /\ submitted[c][i].from = payload[c].from
                /\ submitted[c][i].to = payload[c].to
                /\ submitted[c][i].value = payload[c].value
        /\ local[c].settleBytecode \in EmptyCodes
             => /\ submitted[c] = <<>>
                /\ code \in EmptyCodes
                /\ pc[c] = "done"

\* settle has given up on a wallet that is still undeployed although its
\* signature carries deployment information and verify let it through.
C29_Witness ==
    \E c \in Sessions :
        /\ op[c] = "settle"
        /\ payload[c].signature.wrapper = "erc6492"
        /\ local[c].valid.kind = "VerifyResponse"
        /\ local[c].valid.isValid
        /\ local[c].settleBytecode \in EmptyCodes
        /\ calls[c].writeContract = 0
        /\ result[c].kind = "SettleResponse"
        /\ result[c].errorReason = UndeployedReason

\* C30: the paywall client does not retry the payment when the error of the
\* 402 response is invalid_exact_evm_payload_undeployed_smart_wallet, with or
\* without a numeric x402Version in the response, and tells the user to deploy
\* the wallet; it retries when the response has a numeric x402Version and
\* another error or none.
C30_UndeployedWalletNotRetried ==
    paywall.handled
        => LET errorData == paywall.errorData
               undeployed == errorData.error
                               = "invalid_exact_evm_payload_undeployed_smart_wallet"
           IN /\ undeployed
                   => /\ ~paywall.shouldRetry
                      /\ paywall.errorMessage # ""
              /\ (~undeployed /\ errorData.x402Version.type = "number")
                   => /\ paywall.shouldRetry
                      /\ paywall.errorMessage = ""

\* The client has declined to retry on a response that carries both the
\* undeployed-wallet error and a numeric x402Version.
C30_Witness ==
    /\ paywall.handled
    /\ paywall.errorData.error = UndeployedReason
    /\ paywall.errorData.x402Version.type = "number"
    /\ ~paywall.shouldRetry

\* C31: whenever verify rejects with unsupported_scheme, the recipient-mismatch
\* reason, the valid-before reason or the valid-after reason, the call has
\* issued no balance read and no bytecode read; and a rejection for the funds
\* or the value comes after the one balance read and before any bytecode read.
C31_LocalChecksBeforeReads ==
    \A c \in Sessions :
        (VerifyRan(c) /\ ~local[c].valid.isValid)
            => /\ local[c].valid.invalidReason
                    \in {"unsupported_scheme",
                         "invalid_exact_evm_payload_recipient_mismatch",
                         "invalid_exact_evm_payload_authorization_valid_before",
                         "invalid_exact_evm_payload_authorization_valid_after"}
                    => /\ calls[c].getERC20Balance = 0
                       /\ calls[c].getCode = 0
                       /\ local[c].balance = -1
                       /\ local[c].bytecode = "unread"
               /\ local[c].valid.invalidReason
                    \in {"insufficient_funds",
                         "invalid_exact_evm_payload_authorization_value"}
                    => /\ calls[c].getERC20Balance = 1
                       /\ calls[c].getCode = 0

\* verify has rejected an authorization that is not valid yet, after the
\* signature check and both clock reads, without a balance or bytecode read.
C31_Witness ==
    \E c \in Sessions :
        /\ op[c] = "verify"
        /\ pc[c] = "done"
        /\ result[c].kind = "VerifyResponse"
        /\ result[c].invalidReason
             = "invalid_exact_evm_payload_authorization_valid_after"
        /\ calls[c].verifyTypedData = 1
        /\ local[c].now2 # Unread
        /\ calls[c].getERC20Balance = 0
        /\ calls[c].getCode = 0

\* C32: nothing orders two settle calls for the same payer against each other.
\* The balance check of a call depends on the balance that call read and on
\* nothing the other call has done: a call that read a balance covering its
\* maxAmountRequired is not rejected for insufficient funds, also when the
\* other call has passed the check on the same balance or has submitted
\* already, and it is rejected only when the balance it read is short.
C32_SettleCallsNotOrdered ==
    \A c \in Sessions :
        (local[c].balance # Unread /\ VerifyRan(c))
            => (local[c].valid.invalidReason = "insufficient_funds"
                  <=> local[c].balance < requirements[c].maxAmountRequired)

\* Both calls have read a balance that covers one maxAmountRequired and not
\* the two, both have passed the balance check, and both have submitted.
C32_Witness ==
    /\ payload["s1"] # payload["s2"]
    /\ payload["s1"].from = payload["s2"].from
    /\ \A c \in Sessions :
          /\ op[c] = "settle"
          /\ local[c].balance >= requirements[c].maxAmountRequired
          /\ local[c].valid.kind = "VerifyResponse"
          /\ local[c].valid.isValid
          /\ Submissions(c) = 1
    /\ local["s1"].balance
         < requirements["s1"].maxAmountRequired + requirements["s2"].maxAmountRequired

\* C33: every verify call and every settle call in flight returns in the end,
\* with a response or an exception, when every external call it awaits
\* responds; and a call awaits each of the version read, the signature check,
\* the balance read, the submission and the receipt once at most, and the
\* bytecode read twice at most (once in the verify of a settle, once in the
\* settle itself).
C33_CallsReturn ==
    /\ [](\A c \in Sessions :
            /\ calls[c].getVersion <= 1
            /\ calls[c].verifyTypedData <= 1
            /\ calls[c].getERC20Balance <= 1
            /\ calls[c].getCode <= 2
            /\ calls[c].writeContract <= 1
            /\ calls[c].waitForTransactionReceipt <= 1)
    /\ \A c \in Sessions :
          (pc[c] \notin {"off", "idle", "done"}) ~> (pc[c] = "done")

\* A settle call has returned after awaiting every external call there is.
C33_Witness ==
    \E c \in Sessions :
        /\ op[c] = "settle"
        /\ pc[c] = "done"
        /\ result[c].kind = "SettleResponse"
        /\ calls[c].getVersion = 1
        /\ calls[c].verifyTypedData = 1
        /\ calls[c].getERC20Balance = 1
        /\ calls[c].getCode = 2
        /\ calls[c].writeContract = 1
        /\ calls[c].waitForTransactionReceipt = 1

\* C34: when verify reads an empty bytecode for a contract wallet, it takes
\* the deployment metadata as present, and accepts, only when the parsed
\* wrapper gives both the factory address and the deployment call data; a
\* wrapper that gives the factory address alone, or the call data alone, is
\* rejected with invalid_exact_evm_payload_undeployed_smart_wallet like a
\* signature without a wrapper.
C34_MetadataNeedsFactoryAndCallData ==
    \A c \in Sessions :
        LET wrapper == payload[c].signature.wrapper
        IN local[c].bytecode \in {"undefined", "0x"}
            => /\ VerifyRan(c)
               /\ local[c].valid.isValid <=> wrapper = "erc6492"
               /\ wrapper \in {"factoryOnly", "callDataOnly", "none"}
                    => /\ local[c].valid.invalidReason
                            = "invalid_exact_evm_payload_undeployed_smart_wallet"
                       /\ local[c].valid.payer = payload[c].from
                       /\ submitted[c] = <<>>

\* verify has rejected an undeployed wallet whose wrapper gives a factory
\* address and no call data.
C34_Witness ==
    \E c \in Sessions :
        /\ payload[c].signature.wrapper = "factoryOnly"
        /\ local[c].bytecode \in EmptyCodes
        /\ op[c] = "verify"
        /\ result[c].kind = "VerifyResponse"
        /\ result[c].invalidReason = UndeployedReason

\* C35: every SettleResponse settle returns has one of three shapes: success
\* with the hash of the submitted transaction and no errorReason; failure with
\* an empty transaction and an errorReason, which is the shape returned exactly
\* when the call made no submission; failure with the hash of the submitted
\* transaction and errorReason invalid_transaction_state. The transaction is
\* non-empty exactly when the call made a submission.
C35_SettleResponseShapes ==
    \A c \in Sessions :
        (op[c] = "settle" /\ result[c].kind = "SettleResponse")
            => LET res == result[c]
                   succeeded == /\ res.success
                                /\ res.transaction # ""
                                /\ res.errorReason = "undefined"
                   notSubmitted == /\ ~res.success
                                   /\ res.transaction = ""
                                   /\ res.errorReason # "undefined"
                   failedOnChain == /\ ~res.success
                                    /\ res.transaction # ""
                                    /\ res.errorReason = "invalid_transaction_state"
               IN /\ succeeded \/ notSubmitted \/ failedOnChain
                  /\ notSubmitted <=> calls[c].writeContract = 0
                  /\ res.transaction # "" <=> calls[c].writeContract = 1
                  /\ res.transaction # "" => res.transaction = local[c].tx
                  /\ pc[c] = "done"

\* settle has returned success, with the hash, for a contract wallet.
C35_Witness ==
    \E c \in Sessions :
        /\ op[c] = "settle"
        /\ result[c].kind = "SettleResponse"
        /\ result[c].success
        /\ result[c].transaction # ""
        /\ result[c].errorReason = Undefined
        /\ Submissions(c) = 1
        /\ payload[c].signature.hexLen = 132

====
